---- MODULE Spec2Model ----
(***************************************************************************)
(* freidok-cli: the record normalisation and filtering engine              *)
(* (freidok_cli/modify.py) and the publications pipeline that drives it    *)
(* (freidok_cli/cli/run.py).                                               *)
(*                                                                         *)
(* Python values are tagged records:                                       *)
(*   str    [t |-> "s", v |-> <<characters>>]                              *)
(*   None   [t |-> "null"]                                                 *)
(*   list   [t |-> "l", items |-> <<values>>]                              *)
(*   dict   [t |-> "m", kv |-> << <<key, value>>, ... >>]  (insertion      *)
(*          order, keys unique)                                            *)
(* A raised exception is the outcome [t |-> "err", e |-> <<class name>>].  *)
(* A call that mutates its argument is an operator that returns both the   *)
(* value returned and the argument as the call leaves it.                  *)
(***************************************************************************)
EXTENDS Integers, Sequences, FiniteSets, TLC

VARIABLES pc, node, tree0, preferred, ret, ret2, value, idx, publist, publist0,
          call, out, args, data, data0, stages, exported

vars == <<pc, node, tree0, preferred, ret, ret2, value, idx, publist, publist0,
          call, out, args, data, data0, stages, exported>>
pruneVars == <<node, tree0, preferred, ret, ret2, value, idx>>
recordVars == <<publist, publist0, call, out>>
pipelineVars == <<args, data, data0, stages, exported>>

\* ------------------------------------------------------------------ bounds
MaxLen == 3
MaxPref == 2
MaxPersons == 2
MaxTitles == 2
MaxIds == 3
MaxDocs == 2
MaxPubs == 2
MaxYear == 2

\* ------------------------------------------------------------ Python values
Str(s) == [t |-> "s", v |-> s]
None == [t |-> "null"]
List(items) == [t |-> "l", items |-> items]
Map(kv) == [t |-> "m", kv |-> kv]
Err(e) == [t |-> "err", e |-> e]

IsErr(x) == x.t = "err"
HasKey(m, k) == \E i \in 1..Len(m.kv) : m.kv[i][1] = k
Get(m, k) == m.kv[CHOOSE i \in 1..Len(m.kv) : m.kv[i][1] = k][2]

\* ----------------------------------------------------------- preference_index
\* list.index(value): position of the first equal element, -1 for ValueError
RECURSIVE index(_, _, _)
index(l, v, i) ==
  IF i > Len(l) THEN -1
  ELSE IF l[i] = v THEN i - 1
  ELSE index(l, v, i + 1)

\* the position of the last occurrence instead of the first
preference_index_last(v, preferred_values) ==
  IF \E i \in 1..Len(preferred_values) : preferred_values[i] = v
  THEN (CHOOSE i \in 1..Len(preferred_values) :
          /\ preferred_values[i] = v
          /\ \A j \in 1..Len(preferred_values) : preferred_values[j] = v => j <= i) - 1
  ELSE Len(preferred_values)

preference_index(v, preferred_values) ==
  LET r == index(preferred_values, v, 1)
  IN IF r = -1 THEN Len(preferred_values) ELSE r

\* ------------------------------------------------------------------ list.sort
\* list.sort(key=...) is stable: the indices 1..n of the list in sorted order,
\* built by inserting each element after every element whose key is not larger
\* a sort that puts an element before the elements of equal key
RECURSIVE sorted_indices_unstable(_, _)
sorted_indices_unstable(keys, n) ==
  IF n = 0 THEN <<>>
  ELSE LET p == sorted_indices_unstable(keys, n - 1)
           pos == Cardinality({j \in 1..Len(p) : keys[p[j]] < keys[n]})
       IN SubSeq(p, 1, pos) \o <<n>> \o SubSeq(p, pos + 1, Len(p))

RECURSIVE sorted_indices(_, _)
sorted_indices(keys, n) ==
  IF n = 0 THEN <<>>
  ELSE LET p == sorted_indices(keys, n - 1)
           pos == Cardinality({j \in 1..Len(p) : keys[p[j]] <= keys[n]})
       IN SubSeq(p, 1, pos) \o <<n>> \o SubSeq(p, pos + 1, Len(p))

\* x[attr] for the sort key: the exception it raises, <<>> when it raises none
subscript_error(x, attr) ==
  IF x.t = "m" THEN (IF HasKey(x, attr) THEN <<>> ELSE <<"KeyError">>)
  ELSE <<"TypeError">>

\* the while loop of json_strip_languages: k after the loop
RECURSIVE run_length(_, _, _)
run_length(items, attr, k) ==
  IF k < Len(items) /\ Get(items[k + 1], attr) = Get(items[1], attr)
  THEN run_length(items, attr, k + 1)
  ELSE k

\* the test without the look at the first element
is_proper_list_len_only(items, attr) == Len(items) > 1

\* "is a proper list of objects having a matching attribute?"

is_proper_list(items, attr) ==
  Len(items) > 1 /\ items[1].t = "m" /\ HasKey(items[1], attr)

\* what json_strip_languages does to one list before it recurses into it:
\* inplace is the caller's list after node.sort, kept is node[0:k], err the
\* exception the sort key raises (list.sort then leaves the list as it was)
prune_list(items, attr, pref) ==
  IF is_proper_list(items, attr) THEN
    LET len == Len(items)
        bad == {i \in 1..len : subscript_error(items[i], attr) # <<>>}
    IN IF bad # {}
       THEN [kept |-> <<>>, inplace |-> items,
             err |-> subscript_error(
                       items[CHOOSE i \in bad : \A j \in bad : i <= j], attr)]
       ELSE LET keys == [i \in 1..len |-> preference_index(Get(items[i], attr), pref)]
                p == sorted_indices(keys, len)
                sorted == [j \in 1..len |-> items[p[j]]]
                k == run_length(sorted, attr, 1)
            IN [kept |-> SubSeq(sorted, 1, k), inplace |-> sorted, err |-> <<>>]
  ELSE [kept |-> items, inplace |-> items, err |-> <<>>]

\* ------------------------------------------------------- json_strip_languages
RECURSIVE json_strip_languages(_, _, _)
RECURSIVE strip_each(_, _, _)

\* a comprehension over items, in order; it stops at the first item that raises
strip_each(items, attr, pref) ==
  IF items = <<>> THEN [rets |-> <<>>, nodes |-> <<>>, err |-> <<>>]
  ELSE LET h == json_strip_languages(Head(items), attr, pref)
       IN IF IsErr(h.ret)
          THEN [rets |-> <<>>, nodes |-> <<h.node>> \o Tail(items), err |-> h.ret.e]
          ELSE LET r == strip_each(Tail(items), attr, pref)
               IN [rets |-> <<h.ret>> \o r.rets,
                   nodes |-> <<h.node>> \o r.nodes,
                   err |-> r.err]

\* ret: the value returned (or the exception); node: the argument after the call
json_strip_languages(n, attr, pref) ==
  IF n.t = "m" THEN
    LET len == Len(n.kv)
        r == strip_each([i \in 1..len |-> n.kv[i][2]], attr, pref)
        after == Map([i \in 1..len |-> <<n.kv[i][1], r.nodes[i]>>])
    IN IF r.err # <<>> THEN [ret |-> Err(r.err), node |-> after]
       ELSE [ret |-> Map([i \in 1..len |-> <<n.kv[i][1], r.rets[i]>>]), node |-> after]
  ELSE IF n.t = "l" THEN
    LET lv == prune_list(n.items, attr, pref)
    IN IF lv.err # <<>> THEN [ret |-> Err(lv.err), node |-> n]
       ELSE LET k == Len(lv.kept)
                r == strip_each(lv.kept, attr, pref)
                after == List(r.nodes \o SubSeq(lv.inplace, k + 1, Len(lv.inplace)))
            IN IF r.err # <<>> THEN [ret |-> Err(r.err), node |-> after]
               ELSE [ret |-> List(r.rets), node |-> after]
  ELSE [ret |-> n, node |-> n]

\* ------------------------------------------------------------ payload trees
Lang == "language"
Eng == Str(<<"e", "n", "g">>)
Deu == Str(<<"d", "e", "u">>)
Fra == Str(<<"f", "r", "a">>)
TextA == Str(<<"A">>)
TextB == Str(<<"B">>)

LangMap(l, v) == Map(<< <<Lang, l>>, <<"value", v>> >>)
NoLangMap(v) == Map(<< <<"value", v>> >>)

RECURSIVE SeqsUpTo(_, _)
SeqsUpTo(S, n) ==
  IF n = 0 THEN {<<>>}
  ELSE LET shorter == SeqsUpTo(S, n - 1)
       IN shorter \cup {Append(s, x) : s \in {q \in shorter : Len(q) = n - 1}, x \in S}

Items == {LangMap(l, v) : l \in {Eng, Deu, Fra}, v \in {TextA, TextB}}
           \cup {NoLangMap(TextA), TextA}

Inner == { <<>>,
           <<LangMap(Deu, TextA), LangMap(Eng, TextB)>>,
           <<LangMap(Fra, TextA), LangMap(None, TextB), LangMap(Fra, TextB)>>,
           <<LangMap(Eng, TextA), NoLangMap(TextB)>> }

Trees ==
  {Map(<< <<"titles", List(l)>> >>) : l \in SeqsUpTo(Items, MaxLen)}
    \cup {List(<<LangMap(l1, List(a)), LangMap(l2, List(b))>>) :
            l1 \in {Eng, Fra}, l2 \in {Eng, Deu}, a \in Inner, b \in Inner}
    \cup {Map(<< <<"titles", List(a)>>, <<"abstracts", List(b)>> >>) :
            a \in Inner, b \in Inner}
    \cup {List(<<NoLangMap(List(a))>>) : a \in Inner}
    \cup {List(<<List(a), NoLangMap(List(b))>>) : a \in Inner, b \in Inner}
    \cup {TextA, None, Map(<<>>), List(<<>>)}

Preferences == SeqsUpTo({Eng, Deu}, MaxPref)

\* -------------------------------------------------------------- the pruner
InitPrune ==
  /\ pc = "start"
  /\ node \in Trees
  /\ tree0 = node
  /\ preferred \in Preferences
  /\ ret = None
  /\ ret2 = None
  /\ value = None
  /\ idx = 0
  /\ publist = <<>>
  /\ publist0 = <<>>
  /\ call = [op |-> "none"]
  /\ out = None
  /\ args = [t |-> "idle"]
  /\ data = None
  /\ data0 = None
  /\ stages = <<>>
  /\ exported = [t |-> "idle"]

\* data = json_strip_languages(data, preferred=args.langs)
Strip ==
  /\ pc = "start"
  /\ LET r == json_strip_languages(node, Lang, preferred)
     IN /\ ret' = r.ret
        /\ node' = r.node
        /\ pc' = IF IsErr(r.ret) THEN "raised" ELSE "stripped"
  /\ UNCHANGED <<tree0, preferred, ret2, value, idx, recordVars, pipelineVars>>

\* json_strip_languages applied to what the first call returned
StripAgain ==
  /\ pc = "stripped"
  /\ ret2' = json_strip_languages(ret, Lang, preferred).ret
  /\ pc' = "done"
  /\ UNCHANGED <<node, tree0, preferred, ret, value, idx, recordVars, pipelineVars>>

\* preference_index(value, preferred)
Rank ==
  /\ pc = "start"
  /\ \E v \in {Eng, Deu, Fra, None} :
       /\ value' = v
       /\ idx' = preference_index(v, preferred)
  /\ pc' = "ranked"
  /\ UNCHANGED <<node, tree0, preferred, ret, ret2, recordVars, pipelineVars>>

NextPrune == Strip \/ StripAgain \/ Rank

SpecPrune == InitPrune /\ [][NextPrune]_vars

\* ------------------------------------------------------------------- str
UpperCase == <<"A", "D", "H", "J", "L", "M", "O", "T">>
LowerCase == <<"a", "d", "h", "j", "l", "m", "o", "t">>
Whitespace == {" "}

char_lower(c) ==
  IF \E i \in 1..Len(UpperCase) : UpperCase[i] = c
  THEN LowerCase[CHOOSE i \in 1..Len(UpperCase) : UpperCase[i] = c]
  ELSE c

char_upper(c) ==
  IF \E i \in 1..Len(LowerCase) : LowerCase[i] = c
  THEN UpperCase[CHOOSE i \in 1..Len(LowerCase) : LowerCase[i] = c]
  ELSE c

\* s.lower()
str_lower(s) == [i \in 1..Len(s) |-> char_lower(s[i])]

\* sub in s
str_in(sub, s) ==
  \E i \in 0..(Len(s) - Len(sub)) : SubSeq(s, i + 1, i + Len(sub)) = sub

RECURSIVE str_lstrip(_)
str_lstrip(s) ==
  IF s # <<>> /\ Head(s) \in Whitespace THEN str_lstrip(Tail(s)) ELSE s

RECURSIVE str_rstrip(_)
str_rstrip(s) ==
  IF s # <<>> /\ s[Len(s)] \in Whitespace
  THEN str_rstrip(SubSeq(s, 1, Len(s) - 1))
  ELSE s

\* s.strip()
str_strip(s) == str_rstrip(str_lstrip(s))

\* s.split(): the maximal runs of non-whitespace characters
RECURSIVE str_split(_)
str_split(s) ==
  LET u == str_lstrip(s)
  IN IF u = <<>> THEN <<>>
     ELSE LET ws == {i \in 1..Len(u) : u[i] \in Whitespace}
              n == IF ws = {} THEN Len(u) + 1
                   ELSE CHOOSE i \in ws : \A j \in ws : i <= j
          IN <<SubSeq(u, 1, n - 1)>> \o str_split(SubSeq(u, n, Len(u)))

\* sep.join(parts)
RECURSIVE str_join(_, _)
str_join(sep, parts) ==
  IF parts = <<>> THEN <<>>
  ELSE IF Len(parts) = 1 THEN parts[1]
  ELSE parts[1] \o sep \o str_join(sep, Tail(parts))

\* Python truthiness of an Optional[str] or Optional[list]
Truthy(x) ==
  IF x.t = "s" THEN x.v # <<>>
  ELSE IF x.t = "l" THEN x.items # <<>>
  ELSE IF x.t = "m" THEN x.kv # <<>>
  ELSE IF x.t = "i" THEN x.v # 0
  ELSE FALSE

Bool(b) == [t |-> "b", v |-> b]

\* ------------------------------------------------------- typed records
Person(f, sn) == [forename |-> f, surname |-> sn]
LocalizedText(l, v) == [language |-> l, value |-> v]
PubId(ty) == [type |-> ty]
Doc(ids, pers, tit) ==
  [pub_ids |-> ids, persons |-> pers, titles |-> tit, _extras_authors |-> None]

\* ----------------------------------------------------- sort_links_by_type
\* a sort that is not stable
sort_links_of_unstable(pub, pref) ==
  IF Truthy(pub.pub_ids)
  THEN LET ids == pub.pub_ids.items
           keys == [i \in 1..Len(ids) |-> preference_index(ids[i].type, pref)]
           p == sorted_indices_unstable(keys, Len(ids))
       IN [pub EXCEPT !.pub_ids = List([j \in 1..Len(ids) |-> ids[p[j]]])]
  ELSE pub

\* only the identifiers of a preferred type, in the order they have
sort_links_of_preferred_only(pub, pref) ==
  IF Truthy(pub.pub_ids)
  THEN [pub EXCEPT !.pub_ids =
          List(SelectSeq(pub.pub_ids.items,
                         LAMBDA e : preference_index(e.type, pref) < Len(pref)))]
  ELSE pub

\* for pub in publist.docs: if pub.pub_ids: pub.pub_ids.sort(key=...)
sort_links_of(pub, pref) ==
  IF Truthy(pub.pub_ids)
  THEN LET ids == pub.pub_ids.items
           keys == [i \in 1..Len(ids) |-> preference_index(ids[i].type, pref)]
           p == sorted_indices(keys, Len(ids))
       IN [pub EXCEPT !.pub_ids = List([j \in 1..Len(ids) |-> ids[p[j]]])]
  ELSE pub

sort_links_by_type(docs, pref) ==
  [docs |-> [i \in 1..Len(docs) |-> sort_links_of(docs[i], pref)], err |-> <<>>]

\* ------------------------------------------------------------ _abbreviate
_abbreviate(name, sep) ==
  IF ~Truthy(name) THEN Str(<<>>)
  ELSE LET tokens == str_split(name.v)
           initials == [i \in 1..Len(tokens) |-> <<char_upper(tokens[i][1])>>]
       IN Str(str_join(sep.v, initials) \o sep.v)

\* ------------------------------------------------- shorten_author_firstnames
shorten_person(pers, sep) ==
  IF Truthy(pers.forename)
  THEN [pers EXCEPT !.forename = _abbreviate(pers.forename, sep)]
  ELSE pers

\* the loops stop at the first publication whose persons cannot be iterated
RECURSIVE shorten_author_firstnames(_, _)
shorten_author_firstnames(docs, sep) ==
  IF docs = <<>> THEN [docs |-> <<>>, err |-> <<>>]
  ELSE LET pub == Head(docs)
       IN IF pub.persons.t # "l"
          THEN [docs |-> docs, err |-> <<"TypeError">>]
          ELSE LET ps == pub.persons.items
                   done == [pub EXCEPT !.persons =
                              List([i \in 1..Len(ps) |-> shorten_person(ps[i], sep)])]
                   r == shorten_author_firstnames(Tail(docs), sep)
               IN [docs |-> <<done>> \o r.docs, err |-> r.err]

\* ---------------------------------------------------------- get_author_name
\* the name without the final strip()
get_author_name_unstripped(author, abbrev, reverse) ==
  LET first == IF Truthy(author.forename) THEN author.forename ELSE Str(<<>>)
      lastname == IF Truthy(author.surname) THEN author.surname ELSE Str(<<>>)
      firstname == IF abbrev # None THEN _abbreviate(first, abbrev) ELSE first
  IN Str(IF reverse THEN lastname.v \o <<" ">> \o firstname.v
         ELSE firstname.v \o <<" ">> \o lastname.v)

get_author_name(author, abbrev, reverse) ==
  LET first == IF Truthy(author.forename) THEN author.forename ELSE Str(<<>>)
      lastname == IF Truthy(author.surname) THEN author.surname ELSE Str(<<>>)
      firstname == IF abbrev # None THEN _abbreviate(first, abbrev) ELSE first
      name == IF reverse THEN lastname.v \o <<" ">> \o firstname.v
              ELSE firstname.v \o <<" ">> \o lastname.v
  IN Str(str_strip(name))

\* ---------------------------------------------------- add_author_list_string
RECURSIVE add_author_list_string(_, _, _, _)
add_author_list_string(docs, abbrev, reverse, sep) ==
  IF docs = <<>> THEN [docs |-> <<>>, err |-> <<>>]
  ELSE LET pub == Head(docs)
           sp == IF sep = None THEN Str(<<",", " ">>) ELSE sep
       IN IF pub.persons.t # "l"
          THEN [docs |-> docs, err |-> <<"TypeError">>]
          ELSE LET ps == pub.persons.items
                   authors == [i \in 1..Len(ps) |->
                                 get_author_name(ps[i], abbrev, reverse).v]
                   done == [pub EXCEPT !._extras_authors =
                              Str(str_join(sp.v, authors))]
                   r == add_author_list_string(Tail(docs), abbrev, reverse, sep)
               IN [docs |-> <<done>> \o r.docs, err |-> r.err]

\* ------------------------------------------- the formatting of the authors
\* freidok/cli.py: the forenames are shortened, then the author list is built
cli_format_authors(docs, abbrev, reverse, sep) ==
  LET short == IF Truthy(abbrev) THEN shorten_author_firstnames(docs, abbrev)
               ELSE [docs |-> docs, err |-> <<>>]
  IN IF short.err # <<>> THEN short
     ELSE add_author_list_string(short.docs, abbrev, reverse, sep)

\* freidok_cli/cli/run.py: the author list is built, then the forenames are
\* shortened
run_format_authors(docs, abbrev, reverse, sep) ==
  LET listed == add_author_list_string(docs, abbrev, reverse, sep)
  IN IF listed.err # <<>> THEN listed
     ELSE IF Truthy(abbrev) THEN shorten_author_firstnames(listed.docs, abbrev)
     ELSE listed

\* ----------------------------------------------------- publication_has_author
\* names: a str or a list of str
as_list(names) == IF names.t = "s" THEN <<names>> ELSE names.items

\* the comparison without lower-casing the text searched
any_name_in_cased(names, text, i) ==
  \E k \in i..Len(names) : str_in(names[k], text)

RECURSIVE any_name_in(_, _, _)
any_name_in(names, text, i) ==
  IF i > Len(names) THEN FALSE
  ELSE IF str_in(names[i], str_lower(text)) THEN TRUE
  ELSE any_name_in(names, text, i + 1)

RECURSIVE any_author(_, _, _)
any_author(persons, names, i) ==
  IF i > Len(persons) THEN FALSE
  ELSE IF any_name_in(names, get_author_name(persons[i], None, FALSE).v, 1) THEN TRUE
  ELSE any_author(persons, names, i + 1)

publication_has_author(pub, names) ==
  LET l == as_list(names)
      lowered == [i \in 1..Len(l) |-> str_lower(l[i].v)]
  IN IF pub.persons.t # "l" THEN Err(<<"TypeError">>)
     ELSE Bool(any_author(pub.persons.items, lowered, 1))

\* ------------------------------------------------------ publication_has_title
\* the exception or the answer of the loop over the titles from position i on
RECURSIVE any_title(_, _, _)
any_title(titles, names, i) ==
  IF i > Len(titles) THEN Bool(FALSE)
  ELSE IF names = <<>> THEN any_title(titles, names, i + 1)
  ELSE IF titles[i].value.t # "s" THEN Err(<<"AttributeError">>)
  ELSE IF any_name_in(names, titles[i].value.v, 1) THEN Bool(TRUE)
  ELSE any_title(titles, names, i + 1)

publication_has_title(pub, titles) ==
  LET l == as_list(titles)
      lowered == [i \in 1..Len(l) |-> str_lower(l[i].v)]
  IN IF pub.titles.t # "l" THEN Err(<<"TypeError">>)
     ELSE any_title(pub.titles.items, lowered, 1)

\* ------------------------------------------------ exclude_publications_by_*
\* the comprehension [pub for pub in docs if not has(pub)]: the kept records,
\* or the exception of the first record on which the predicate raises
RECURSIVE keep_unless(_, _)
keep_unless(docs, verdicts) ==
  IF docs = <<>> THEN [docs |-> <<>>, err |-> <<>>]
  ELSE IF IsErr(Head(verdicts)) THEN [docs |-> <<>>, err |-> Head(verdicts).e]
  ELSE LET r == keep_unless(Tail(docs), Tail(verdicts))
       IN [docs |-> (IF Head(verdicts).v THEN <<>> ELSE <<Head(docs)>>) \o r.docs,
           err |-> r.err]

exclude_publications_by_author(docs, names) ==
  LET r == keep_unless(docs,
             [i \in 1..Len(docs) |-> publication_has_author(docs[i], names)])
  IN IF r.err # <<>> THEN [docs |-> docs, err |-> r.err] ELSE r

exclude_publications_by_title(docs, titles) ==
  LET r == keep_unless(docs,
             [i \in 1..Len(docs) |-> publication_has_title(docs[i], titles)])
  IN IF r.err # <<>> THEN [docs |-> docs, err |-> r.err] ELSE r

\* ------------------------------------------------------ record collections
NameAl == Str(<<"a", "l">>)
NameJoAl == Str(<<"J", "o", " ", "a", "l">>)
NameDo == Str(<<"D", "o">>)
TitleAl == Str(<<"A", "l">>)
TitleDo == Str(<<"d", "o">>)
Doi == Str(<<"d", "o", "i">>)
Isbn == Str(<<"i", "s", "b", "n">>)
Issn == Str(<<"i", "s", "s", "n">>)

Forenames == {None, Str(<<>>), NameAl, NameJoAl}
Surnames == {None, NameDo}
Persons == {Person(f, sn) : f \in Forenames, sn \in Surnames}

OptionalLists(S, n) == {None} \cup {List(l) : l \in SeqsUpTo(S, n)}

PersonLists == OptionalLists(Persons, MaxPersons)
TitleLists ==
  OptionalLists({LocalizedText(Eng, v) : v \in {None, TitleAl, TitleDo}}, MaxTitles)
PubIdLists == OptionalLists({PubId(ty) : ty \in {Doi, Isbn, Issn, None}}, MaxIds)

SomePersons == List(<<Person(NameAl, NameDo)>>)
SomeTitles == List(<<LocalizedText(Eng, TitleAl)>>)
SomeIds == List(<<PubId(Isbn), PubId(Doi)>>)

Blank == Str(<<" ">>)

Docs ==
  {Doc(SomeIds, ps, SomeTitles) : ps \in PersonLists}
    \cup {Doc(SomeIds, List(<<Person(Blank, NameDo), Person(NameDo, Blank)>>),
              SomeTitles)}
    \cup {Doc(SomeIds, SomePersons, ts) : ts \in TitleLists}
    \cup {Doc(ids, SomePersons, SomeTitles) : ids \in PubIdLists}
    \cup {Doc(None, None, None)}

CoreDocs ==
  { Doc(SomeIds, SomePersons, SomeTitles),
    [Doc(List(<<PubId(Issn), PubId(Isbn), PubId(Doi)>>), SomePersons, SomeTitles)
       EXCEPT !._extras_authors = Str(<<"a", "l">>)],
    Doc(SomeIds, List(<<Person(NameJoAl, None)>>),
        List(<<LocalizedText(Eng, TitleDo)>>)),
    Doc(None, None, None),
    Doc(List(<<>>), List(<<>>), List(<<>>)) }

Publists == {<<d>> : d \in Docs} \cup SeqsUpTo(CoreDocs, MaxDocs)

Patterns ==
  { Str(<<"A", "L">>),
    List(<<>>),
    List(<<Str(<<"l", " ", "d">>)>>),
    List(<<Str(<<"x">>), Str(<<"J", "o">>)>>),
    List(<<Str(<<>>)>>),
    List(<<Str(<<"d", "o">>)>>) }

LinkPreferences == {<<>>, <<Doi>>, <<Issn, Doi>>}
Separators == {Str(<<>>), Str(<<".">>)}

\* names given to _abbreviate
Names ==
  { None, Str(<<>>), Blank, Str(<<" ", " ">>), NameAl, NameJoAl,
    Str(<<" ", "j", "o", " ", " ", "d", "o", " ">>),
    Str(<<"M", "a", "r", "i", "a", " ", "T", "h", "e", "r", "e", "s", "a">>) }

\* ------------------------------------------------- the record operations
InitRecords ==
  /\ pc = "start"
  /\ publist \in Publists
  /\ publist0 = publist
  /\ call = [op |-> "none"]
  /\ out = None
  /\ args = [t |-> "idle"]
  /\ data = None
  /\ data0 = None
  /\ stages = <<>>
  /\ exported = [t |-> "idle"]
  /\ node = None
  /\ tree0 = None
  /\ preferred = <<>>
  /\ ret = None
  /\ ret2 = None
  /\ value = None
  /\ idx = 0

\* a call of a function that works on the collection in place
Mutate(r) ==
  /\ publist' = r.docs
  /\ out' = IF r.err # <<>> THEN Err(r.err) ELSE None
  /\ pc' = IF r.err # <<>> THEN "raised" ELSE "returned"
  /\ UNCHANGED <<publist0, pruneVars, pipelineVars>>

\* a call of a predicate on one record
Ask(r) ==
  /\ out' = r
  /\ pc' = IF IsErr(r) THEN "raised" ELSE "returned"
  /\ UNCHANGED <<publist, publist0, pruneVars, pipelineVars>>

SortLinks ==
  /\ pc = "start"
  /\ \E pref \in LinkPreferences :
       /\ call' = [op |-> "sort_links_by_type", preferred |-> pref]
       /\ Mutate(sort_links_by_type(publist, pref))

ShortenFirstnames ==
  /\ pc = "start"
  /\ \E sep \in Separators :
       /\ call' = [op |-> "shorten_author_firstnames", sep |-> sep]
       /\ Mutate(shorten_author_firstnames(publist, sep))

AddAuthorList ==
  /\ pc = "start"
  /\ \E abbrev \in {None} \cup Separators, reverse \in BOOLEAN,
        sep \in {None, Str(<<";">>)} :
       /\ call' = [op |-> "add_author_list_string", abbrev |-> abbrev,
                   reverse |-> reverse, sep |-> sep]
       /\ Mutate(add_author_list_string(publist, abbrev, reverse, sep))

HasAuthor ==
  /\ pc = "start"
  /\ \E i \in 1..Len(publist), names \in Patterns :
       /\ call' = [op |-> "publication_has_author", i |-> i, names |-> names]
       /\ Ask(publication_has_author(publist[i], names))

HasTitle ==
  /\ pc = "start"
  /\ \E i \in 1..Len(publist), titles \in Patterns :
       /\ call' = [op |-> "publication_has_title", i |-> i, names |-> titles]
       /\ Ask(publication_has_title(publist[i], titles))

ExcludeByAuthor ==
  /\ pc = "start"
  /\ \E names \in Patterns :
       /\ call' = [op |-> "exclude_publications_by_author", names |-> names]
       /\ Mutate(exclude_publications_by_author(publist, names))

ExcludeByTitle ==
  /\ pc = "start"
  /\ \E titles \in Patterns :
       /\ call' = [op |-> "exclude_publications_by_title", names |-> titles]
       /\ Mutate(exclude_publications_by_title(publist, titles))

\* _abbreviate(name, sep)
Abbreviate ==
  /\ pc = "start"
  /\ \E name \in Names, sep \in Separators \cup {Str(<<"-">>)} :
       /\ call' = [op |-> "_abbreviate", name |-> name, sep |-> sep]
       /\ Ask(_abbreviate(name, sep))

\* get_author_name(author, abbrev, reverse) on a person of a record
GetAuthorName ==
  /\ pc = "start"
  /\ \E i \in 1..Len(publist) :
       /\ publist[i].persons.t = "l"
       /\ \E j \in 1..Len(publist[i].persons.items),
             abbrev \in {None} \cup Separators, reverse \in BOOLEAN :
            /\ call' = [op |-> "get_author_name", i |-> i, j |-> j,
                        abbrev |-> abbrev, reverse |-> reverse]
            /\ Ask(get_author_name(publist[i].persons.items[j], abbrev, reverse))

\* sort_links_by_type called once more with the same preference list
SortLinksAgain ==
  /\ pc = "returned"
  /\ call.op = "sort_links_by_type"
  /\ publist' = sort_links_by_type(publist, call.preferred).docs
  /\ pc' = "returned again"
  /\ UNCHANGED <<call, out, publist0, pruneVars, pipelineVars>>

\* the two statements of get_publications of freidok/cli.py that format the
\* authors
CliFormatAuthors ==
  /\ pc = "start"
  /\ \E abbrev \in {None} \cup Separators, reverse \in BOOLEAN,
        sep \in {None, Str(<<";">>)} :
       /\ call' = [op |-> "cli: format authors", abbrev |-> abbrev,
                   reverse |-> reverse, sep |-> sep]
       /\ Mutate(cli_format_authors(publist, abbrev, reverse, sep))

\* the two statements of get_publications of freidok_cli/cli/run.py
RunFormatAuthors ==
  /\ pc = "start"
  /\ \E abbrev \in {None} \cup Separators, reverse \in BOOLEAN,
        sep \in {None, Str(<<";">>)} :
       /\ call' = [op |-> "run: format authors", abbrev |-> abbrev,
                   reverse |-> reverse, sep |-> sep]
       /\ Mutate(run_format_authors(publist, abbrev, reverse, sep))

NextRecords ==
  \/ Abbreviate
  \/ GetAuthorName
  \/ SortLinks
  \/ SortLinksAgain
  \/ ShortenFirstnames
  \/ AddAuthorList
  \/ HasAuthor
  \/ HasTitle
  \/ ExcludeByAuthor
  \/ ExcludeByTitle
  \/ CliFormatAuthors
  \/ RunFormatAuthors

SpecRecords == InitRecords /\ [][NextRecords]_vars

\* ---------------------------------------------------------- Publications(**data)
\* the typed collection built from the payload: a field the payload lacks is None
Field(m, k) == IF HasKey(m, k) THEN Get(m, k) ELSE None

ToPerson(m) == Person(Field(m, "forename"), Field(m, "surname"))
ToText(m) == LocalizedText(Field(m, "language"), Field(m, "value"))
ToPubId(m) == PubId(Field(m, "type"))

ToPersons(x) ==
  IF x.t = "l" THEN List([i \in 1..Len(x.items) |-> ToPerson(x.items[i])]) ELSE None
ToTexts(x) ==
  IF x.t = "l" THEN List([i \in 1..Len(x.items) |-> ToText(x.items[i])]) ELSE None
ToPubIds(x) ==
  IF x.t = "l" THEN List([i \in 1..Len(x.items) |-> ToPubId(x.items[i])]) ELSE None

ToDoc(m) ==
  Doc(ToPubIds(Field(m, "pub_ids")),
      ToPersons(Field(m, "persons")),
      ToTexts(Field(m, "titles")))

Publications(payload) ==
  LET docs == Field(payload, "docs")
  IN IF docs.t = "l" THEN [i \in 1..Len(docs.items) |-> ToDoc(docs.items[i])] ELSE <<>>

\* ------------------------------------------------------------- get_publications
All == Str(<<"A", "L", "L">>)

\* the order with formatting and sorting ahead of the exclusion
get_publications_formatting_first ==
  <<"json_strip_languages", "Publications", "add_author_list_string",
    "shorten_author_firstnames", "sort_links_by_type",
    "exclude_publications_by_author", "exclude_publications_by_title", "export">>

\* the statements of get_publications after the retrieval, in program order
get_publications_body ==
  <<"json_strip_languages", "Publications", "exclude_publications_by_author",
    "exclude_publications_by_title", "add_author_list_string",
    "shorten_author_firstnames", "sort_links_by_type", "export">>

Following(stmt) ==
  LET i == CHOOSE i \in 1..Len(get_publications_body) : get_publications_body[i] = stmt
  IN IF i = Len(get_publications_body) THEN "done" ELSE get_publications_body[i + 1]

PersonDict(f, sn) == Map(<< <<"forename", f>>, <<"surname", sn>> >>)
TypeDict(ty) == Map(<< <<"type", ty>> >>)

PubDicts ==
  { Map(<< <<"titles", List(<<LangMap(Eng, TitleAl), LangMap(Fra, TitleDo)>>)>>,
           <<"persons", List(<<PersonDict(NameAl, NameDo)>>)>>,
           <<"pub_ids", List(<<TypeDict(Isbn), TypeDict(Doi)>>)>> >>),
    Map(<< <<"titles", List(<<LangMap(Fra, TitleDo), LangMap(Deu, TitleAl)>>)>>,
           <<"persons", List(<<PersonDict(NameJoAl, NameDo),
                               PersonDict(NameAl, None)>>)>>,
           <<"pub_ids", List(<<TypeDict(Doi)>>)>> >>),
    Map(<< <<"titles", List(<<LangMap(Deu, TitleDo)>>)>>,
           <<"persons", List(<<PersonDict(NameJoAl, None)>>)>> >>),
    Map(<< <<"titles", List(<<LangMap(Eng, TitleDo)>>)>> >>) }

Payloads == {Map(<< <<"docs", List(l)>> >>) : l \in SeqsUpTo(PubDicts, MaxPubs)}

Arguments ==
  [langs : {<<All>>, <<Eng>>, <<Deu, Eng>>},
   exclude_authors : {None, List(<<Str(<<"j", "o">>)>>)},
   exclude_titles : {None, List(<<Str(<<"d", "o">>)>>)},
   authors_abbrev : {None, Str(<<>>), Str(<<".">>)},
   authors_reverse : BOOLEAN,
   authors_sep : {None},
   format : {"json", "markdown"}]

\* the statements of get_institutions after the retrieval, and its end
get_institutions_body ==
  <<"institutions: json_strip_languages", "institutions: Institutions",
    "institutions: export", "institutions: done">>

\* freidok_cli.models.institutions: Doc with the names of the institution
Institution(names) == [names |-> names]
ToInstitution(m) == Institution(ToTexts(Field(m, "names")))

Institutions(payload) ==
  LET docs == Field(payload, "docs")
  IN IF docs.t = "l"
     THEN [i \in 1..Len(docs.items) |-> ToInstitution(docs.items[i])]
     ELSE <<>>

InstDicts == {Map(<< <<"names", List(a)>> >>) : a \in Inner} \cup {Map(<<>>)}

InstPayloads == {Map(<< <<"docs", List(l)>> >>) : l \in SeqsUpTo(InstDicts, MaxPubs)}

InstArguments ==
  [langs : {<<All>>, <<Eng>>, <<Deu, Eng>>, <<All, Eng>>},
   format : {"json", "markdown"}]

Idle == [t |-> "idle"]

InitPipeline ==
  /\ \/ /\ args \in Arguments
        /\ data \in Payloads
        /\ pc = get_publications_body[1]
     \/ /\ args \in InstArguments
        /\ data \in InstPayloads
        /\ pc = get_institutions_body[1]
  /\ data0 = data
  /\ stages = <<>>
  /\ exported = Idle
  /\ publist = <<>>
  /\ publist0 = <<>>
  /\ call = [op |-> "none"]
  /\ out = None
  /\ node = None
  /\ tree0 = None
  /\ preferred = <<>>
  /\ ret = None
  /\ ret2 = None
  /\ value = None
  /\ idx = 0

Untouched == <<args, data0, publist0, call, pruneVars>>

\* a statement whose condition is false
Skip(stmt) ==
  /\ pc' = Following(stmt)
  /\ UNCHANGED <<data, publist, stages, exported, out>>

\* a call made at statement stmt that works on publist in place
InPlace(stmt, r) ==
  /\ publist' = r.docs
  /\ stages' = Append(stages, stmt)
  /\ out' = IF r.err # <<>> THEN Err(r.err) ELSE out
  /\ pc' = IF r.err # <<>> THEN "raised" ELSE Following(stmt)
  /\ UNCHANGED <<data, exported>>

\* pruning whatever the language list is
pruning_always(langs) == TRUE

\* args.langs != ["ALL"]
pruning_enabled(langs) == langs # <<All>>

\* a document with one entry for each record handed over, in place of the tree
export_json_of_items(items, tree) ==
  Map(<< <<"docs", List([i \in 1..Len(items) |-> Map(<<>>)])>> >>)

\* case ExportFormat.JSON: json.dump(data, f, indent=2)
export_json(items, tree) == tree

\* if args.langs != ["ALL"]: data = modify.json_strip_languages(data, preferred=args.langs)
PubStripLanguages ==
  /\ pc = "json_strip_languages"
  /\ IF pruning_enabled(args.langs)
     THEN LET r == json_strip_languages(data, Lang, args.langs)
          IN /\ stages' = Append(stages, "json_strip_languages")
             /\ IF IsErr(r.ret)
                THEN /\ data' = r.node
                     /\ out' = r.ret
                     /\ pc' = "raised"
                ELSE /\ data' = r.ret
                     /\ out' = out
                     /\ pc' = Following("json_strip_languages")
             /\ UNCHANGED <<publist, exported>>
     ELSE Skip("json_strip_languages")
  /\ UNCHANGED Untouched

\* publist = Publications(**data)
PubValidate ==
  /\ pc = "Publications"
  /\ publist' = Publications(data)
  /\ stages' = Append(stages, "Publications")
  /\ pc' = Following("Publications")
  /\ UNCHANGED <<data, exported, out>>
  /\ UNCHANGED Untouched

\* if args.exclude_authors: modify.exclude_publications_by_author(...)
PubExcludeAuthors ==
  /\ pc = "exclude_publications_by_author"
  /\ IF Truthy(args.exclude_authors)
     THEN InPlace("exclude_publications_by_author",
                  exclude_publications_by_author(publist, args.exclude_authors))
     ELSE Skip("exclude_publications_by_author")
  /\ UNCHANGED Untouched

\* if args.exclude_titles: modify.exclude_publications_by_title(...)
PubExcludeTitles ==
  /\ pc = "exclude_publications_by_title"
  /\ IF Truthy(args.exclude_titles)
     THEN InPlace("exclude_publications_by_title",
                  exclude_publications_by_title(publist, args.exclude_titles))
     ELSE Skip("exclude_publications_by_title")
  /\ UNCHANGED Untouched

\* modify.add_author_list_string(publist, abbrev=..., reverse=..., sep=...)
PubAddAuthorList ==
  /\ pc = "add_author_list_string"
  /\ InPlace("add_author_list_string",
             add_author_list_string(publist, args.authors_abbrev,
                                    args.authors_reverse, args.authors_sep))
  /\ UNCHANGED Untouched

\* if args.authors_abbrev: modify.shorten_author_firstnames(publist, sep=...)
PubShortenFirstnames ==
  /\ pc = "shorten_author_firstnames"
  /\ IF Truthy(args.authors_abbrev)
     THEN InPlace("shorten_author_firstnames",
                  shorten_author_firstnames(publist, args.authors_abbrev))
     ELSE Skip("shorten_author_firstnames")
  /\ UNCHANGED Untouched

\* modify.sort_links_by_type(publist, preferred=["doi"])
PubSortLinks ==
  /\ pc = "sort_links_by_type"
  /\ InPlace("sort_links_by_type", sort_links_by_type(publist, <<Doi>>))
  /\ UNCHANGED Untouched

\* export(publist, data, args): json.dump(data) or an exporter of the records
PubExport ==
  /\ pc = "export"
  /\ exported' = IF args.format = "json"
                 THEN [format |-> "json", tree |-> export_json(publist, data)]
                 ELSE [format |-> args.format, items |-> publist]
  /\ stages' = Append(stages, "export")
  /\ pc' = Following("export")
  /\ UNCHANGED <<data, publist, out>>
  /\ UNCHANGED Untouched

\* ------------------------------------------------------------- get_institutions
\* if args.langs != ["ALL"]: data = modify.json_strip_languages(data, preferred=args.langs)
InstStripLanguages ==
  /\ pc = get_institutions_body[1]
  /\ IF pruning_enabled(args.langs)
     THEN LET r == json_strip_languages(data, Lang, args.langs)
          IN /\ stages' = Append(stages, "json_strip_languages")
             /\ IF IsErr(r.ret)
                THEN /\ data' = r.node
                     /\ out' = r.ret
                     /\ pc' = "raised"
                ELSE /\ data' = r.ret
                     /\ out' = out
                     /\ pc' = get_institutions_body[2]
     ELSE /\ pc' = get_institutions_body[2]
          /\ UNCHANGED <<data, stages, out>>
  /\ UNCHANGED <<publist, exported>>
  /\ UNCHANGED Untouched

\* items = Institutions(**data)
InstValidate ==
  /\ pc = get_institutions_body[2]
  /\ publist' = Institutions(data)
  /\ stages' = Append(stages, "Institutions")
  /\ pc' = get_institutions_body[3]
  /\ UNCHANGED <<data, exported, out>>
  /\ UNCHANGED Untouched

\* export(items, data, args)
InstExport ==
  /\ pc = get_institutions_body[3]
  /\ exported' = IF args.format = "json"
                 THEN [format |-> "json", tree |-> export_json(publist, data)]
                 ELSE [format |-> args.format, items |-> publist]
  /\ stages' = Append(stages, "export")
  /\ pc' = get_institutions_body[4]
  /\ UNCHANGED <<data, publist, out>>
  /\ UNCHANGED Untouched

NextPipeline ==
  \/ InstStripLanguages
  \/ InstValidate
  \/ InstExport
  \/ PubStripLanguages
  \/ PubValidate
  \/ PubExcludeAuthors
  \/ PubExcludeTitles
  \/ PubAddAuthorList
  \/ PubShortenFirstnames
  \/ PubSortLinks
  \/ PubExport

SpecPipeline == InitPipeline /\ [][NextPipeline]_vars

\* ---------------------------------------------------------------------------
\* Properties of the pruner
\* ---------------------------------------------------------------------------
\* every list node of a tree
RECURSIVE ListsOf(_)
ListsOf(n) ==
  IF n.t = "l"
  THEN {n} \cup UNION {ListsOf(n.items[i]) : i \in 1..Len(n.items)}
  ELSE IF n.t = "m" THEN UNION {ListsOf(n.kv[i][2]) : i \in 1..Len(n.kv)}
  ELSE {}

AllCarry(items, attr) ==
  \A i \in 1..Len(items) : items[i].t = "m" /\ HasKey(items[i], attr)
NoneCarries(items, attr) ==
  \A i \in 1..Len(items) : ~(items[i].t = "m" /\ HasKey(items[i], attr))
Mixed(items, attr) == ~AllCarry(items, attr) /\ ~NoneCarries(items, attr)

\* rank of a value: first position in the preference list, counted from 0
RankOf(v, pref) ==
  IF \E i \in 1..Len(pref) : pref[i] = v
  THEN (CHOOSE i \in 1..Len(pref) :
          pref[i] = v /\ \A j \in 1..(i - 1) : pref[j] # v) - 1
  ELSE Len(pref)

RECURSIVE RankGroups(_, _, _, _)
RankGroups(items, attr, pref, r) ==
  IF r > Len(pref) THEN <<>>
  ELSE SelectSeq(items, LAMBDA e : RankOf(Get(e, attr), pref) = r)
         \o RankGroups(items, attr, pref, r + 1)

\* the stable sort by rank, as a sequence of rank groups in list order
StablySorted(items, attr, pref) == RankGroups(items, attr, pref, 0)

\* the maximal leading run of elements sharing the first element's attribute
LeadingRun(items, attr) ==
  LET k == CHOOSE k \in 1..Len(items) :
             /\ \A j \in 1..k : Get(items[j], attr) = Get(items[1], attr)
             /\ k < Len(items) => Get(items[k + 1], attr) # Get(items[1], attr)
  IN SubSeq(items, 1, k)

Returned(items) ==
  [i \in 1..Len(items) |-> json_strip_languages(items[i], Lang, preferred).ret]

IsTitles(t) == t.t = "m" /\ Len(t.kv) = 1

\* C1: a list of more than one element, each a map carrying the attribute, is
\* reduced at its level to the leading same-language run of its stable sort
\* by preference_index, for every list of the tree and in the value returned.
C1_PruneKeepsBestRun ==
  /\ \A l \in ListsOf(tree0) :
       (Len(l.items) > 1 /\ AllCarry(l.items, Lang)) =>
         LET lv == prune_list(l.items, Lang, preferred)
         IN /\ lv.err = <<>>
            /\ lv.kept = LeadingRun(StablySorted(l.items, Lang, preferred), Lang)
  /\ (pc \in {"stripped", "done"} /\ IsTitles(tree0)) =>
       LET items == Get(tree0, "titles").items
       IN (Len(items) > 1 /\ AllCarry(items, Lang)) =>
            (Get(ret, "titles").items =
               LeadingRun(StablySorted(items, Lang, preferred), Lang))
  /\ (/\ pc \in {"stripped", "done"}
      /\ tree0.t = "l"
      /\ Len(tree0.items) > 1
      /\ AllCarry(tree0.items, Lang)) =>
       (ret.items =
          Returned(LeadingRun(StablySorted(tree0.items, Lang, preferred), Lang)))

C1_Witness ==
  /\ pc = "stripped"
  /\ preferred = <<Eng, Deu>>
  /\ tree0 = Map(<< <<"titles", List(<<LangMap(Deu, TextA), LangMap(Eng, TextA),
                                        LangMap(Fra, TextA)>>)>> >>)
  /\ ret = Map(<< <<"titles", List(<<LangMap(Eng, TextA)>>)>> >>)

\* C2: a list mixing maps that carry the attribute with elements that lack it
\* is returned unchanged at its level and no exception is raised.
C2_MixedListUnchanged ==
  (IsTitles(tree0) /\ Mixed(Get(tree0, "titles").items, Lang)) =>
     /\ pc # "raised"
     /\ (pc \in {"stripped", "done"} =>
           Get(ret, "titles").items = Get(tree0, "titles").items)

\* C3: the call leaves the caller's tree as it was.
C3_InputNotMutated == node = tree0

\* C4: pruning the pruned tree gives the pruned tree again, for any tree.
C4_Idempotent ==
  /\ pc # "raised"
  /\ (pc = "done" => ret2 = ret)

\* C5: a list of 0 or 1 elements, or whose first element is no map, or whose
\* elements lack the attribute, keeps its elements, order and length; scalars
\* and empty containers are returned unchanged.
C5_OtherListsUnchanged ==
  /\ \A l \in ListsOf(tree0) :
       (\/ Len(l.items) <= 1
        \/ l.items[1].t # "m"
        \/ NoneCarries(l.items, Lang)) =>
         prune_list(l.items, Lang, preferred) =
           [kept |-> l.items, inplace |-> l.items, err |-> <<>>]
  /\ (IsTitles(tree0) /\ LET items == Get(tree0, "titles").items
                         IN \/ Len(items) <= 1
                            \/ items[1].t # "m"
                            \/ NoneCarries(items, Lang)) =>
       /\ pc # "raised"
       /\ (pc \in {"stripped", "done"} => (ret = tree0 /\ node = tree0))
  /\ (/\ pc \in {"stripped", "done"}
      /\ tree0.t = "l"
      /\ \/ Len(tree0.items) <= 1
         \/ tree0.items[1].t # "m"
         \/ NoneCarries(tree0.items, Lang)) =>
       (ret.items = Returned(tree0.items))
  /\ (tree0 \in {TextA, None, Map(<<>>), List(<<>>)}) =>
       /\ pc # "raised"
       /\ (pc \in {"stripped", "done"} => (ret = tree0 /\ node = tree0))

\* a one-element list without the attribute: kept as it is, its child pruned
C5_Witness ==
  /\ pc = "stripped"
  /\ preferred = <<Eng>>
  /\ tree0 = List(<<NoLangMap(List(<<LangMap(Deu, TextA), LangMap(Eng, TextB)>>))>>)
  /\ ret = List(<<NoLangMap(List(<<LangMap(Eng, TextB)>>))>>)

\* C6: preference_index returns the zero-based position of the first
\* occurrence of the value in the preference list, the length of the list
\* when the value is not in it, and leaves the list as it was.
C6_PreferenceIndex ==
  [][Rank => /\ idx' = RankOf(value', preferred)
             /\ idx' \in 0..Len(preferred)
             /\ preferred' = preferred]_vars

C6_Witness ==
  /\ pc = "ranked"
  /\ preferred = <<Eng, Deu>>
  /\ value = Deu
  /\ idx = 1

\* ---------------------------------------------------------------------------
\* Properties of the record operations
\* ---------------------------------------------------------------------------
Absent(x) == x = None \/ x = List(<<>>)

\* s without its leading and trailing whitespace
Trimmed(s) ==
  LET solid == {i \in 1..Len(s) : s[i] \notin Whitespace}
  IN IF solid = {} THEN <<>>
     ELSE SubSeq(s, CHOOSE i \in solid : \A j \in solid : i <= j,
                    CHOOSE i \in solid : \A j \in solid : j <= i)

Text(x) == IF x.t = "s" THEN x.v ELSE <<>>

\* forename, space, surname, trimmed
ComposedName(p) == Trimmed(Text(p.forename) \o <<" ">> \o Text(p.surname))

\* sub occurs in s, letter case ignored
OccursIn(sub, s) ==
  \E at \in 0..Len(s) :
    /\ at + Len(sub) <= Len(s)
    /\ \A k \in 1..Len(sub) : char_lower(s[at + k]) = char_lower(sub[k])

PatternList(names) == IF names.t = "s" THEN <<names>> ELSE names.items

MatchesAuthor(d, names) ==
  /\ d.persons.t = "l"
  /\ \E j \in 1..Len(d.persons.items), k \in 1..Len(PatternList(names)) :
       OccursIn(PatternList(names)[k].v, ComposedName(d.persons.items[j]))

MatchesTitle(d, names) ==
  /\ d.titles.t = "l"
  /\ \E j \in 1..Len(d.titles.items), k \in 1..Len(PatternList(names)) :
       /\ d.titles.items[j].value.t = "s"
       /\ OccursIn(PatternList(names)[k].v, d.titles.items[j].value.v)

Called == pc \in {"returned", "raised"}

\* the field an operation reads
FieldRead(op, d) ==
  IF op = "sort_links_by_type" THEN d.pub_ids
  ELSE IF op = "publication_has_title" THEN d.titles
  ELSE d.persons

\* C7: on a record whose pub_ids, persons or titles is absent or empty the
\* operation reading that field completes without raising, leaves the
\* record's fields as they were, and the predicates answer false.
C7_MissingFieldsNoError ==
  (/\ Called
   /\ call.op \in {"sort_links_by_type", "add_author_list_string",
                   "shorten_author_firstnames", "publication_has_author",
                   "publication_has_title"}) =>
     LET concerned ==
           IF call.op \in {"publication_has_author", "publication_has_title"}
           THEN {call.i} ELSE 1..Len(publist0)
         missing == {i \in concerned : Absent(FieldRead(call.op, publist0[i]))}
     IN missing # {} =>
          /\ pc = "returned"
          /\ \A i \in missing :
               /\ publist[i].pub_ids = publist0[i].pub_ids
               /\ publist[i].persons = publist0[i].persons
               /\ publist[i].titles = publist0[i].titles
          /\ call.op \in {"publication_has_author", "publication_has_title"} =>
               out = Bool(FALSE)

\* C9: exclusion by author (by title) leaves exactly the records that no
\* pattern matches, in their order and unmodified; an empty pattern list
\* keeps every record.
C9_ExcludeKeepsNonMatching ==
  /\ (Called /\ call.op = "exclude_publications_by_author") =>
       /\ pc = "returned"
       /\ publist = SelectSeq(publist0, LAMBDA d : ~MatchesAuthor(d, call.names))
  /\ (Called /\ call.op = "exclude_publications_by_title") =>
       /\ pc = "returned"
       /\ publist = SelectSeq(publist0, LAMBDA d : ~MatchesTitle(d, call.names))

\* C10: publication_has_author is true exactly when some person's composed
\* name (forename, space, surname, trimmed) contains some pattern, letter
\* case ignored; a single string is a one-element list; nothing is modified.
C10_HasAuthor ==
  (Called /\ call.op = "publication_has_author") =>
     /\ (out = Bool(TRUE)) <=> MatchesAuthor(publist0[call.i], call.names)
     /\ pc = "returned" => out \in {Bool(TRUE), Bool(FALSE)}
     /\ publist = publist0

C10_Witness ==
  /\ pc = "returned"
  /\ call.op = "publication_has_author"
  /\ call.names = List(<<Str(<<"l", " ", "d">>)>>)
  /\ publist0[call.i].persons = List(<<Person(NameAl, NameDo)>>)
  /\ out = Bool(TRUE)

\* C11: publication_has_title answers true exactly when some title value of
\* the record contains some pattern, letter case ignored, and false otherwise
\* (so for an empty pattern list); a single string is a one-element list.
C11_HasTitle ==
  (Called /\ call.op = "publication_has_title") =>
     /\ pc = "returned"
     /\ out = Bool(MatchesTitle(publist0[call.i], call.names))

\* the identifiers grouped by the rank of their type, each group in list order
RECURSIVE ByTypeRank(_, _, _)
ByTypeRank(ids, pref, r) ==
  IF r > Len(pref) THEN <<>>
  ELSE SelectSeq(ids, LAMBDA e : RankOf(e.type, pref) = r)
         \o ByTypeRank(ids, pref, r + 1)

Sorted == Called /\ call.op = "sort_links_by_type"

\* C15: sort_links_by_type re-sorts the pub_ids of each record stably by
\* preference_index(type, preferred): preferred types first in preference
\* order, identifiers of equal rank in their original relative order.
C15_SortLinksStable ==
  Sorted =>
    /\ pc = "returned"
    /\ Len(publist) = Len(publist0)
    /\ \A i \in 1..Len(publist0) :
         publist0[i].pub_ids.t = "l" =>
           publist[i].pub_ids =
             List(ByTypeRank(publist0[i].pub_ids.items, call.preferred, 0))

\* [isbn, doi, issn] with preferred [doi] becomes [doi, isbn, issn]
C15_Witness ==
  /\ Sorted
  /\ call.preferred = <<Doi>>
  /\ Len(publist0) = 1
  /\ publist0[1].pub_ids = List(<<PubId(Isbn), PubId(Doi), PubId(Issn)>>)
  /\ publist[1].pub_ids = List(<<PubId(Doi), PubId(Isbn), PubId(Issn)>>)

Count(x, seq) == Cardinality({i \in 1..Len(seq) : seq[i] = x})

IsPermutation(a, b) ==
  /\ Len(a) = Len(b)
  /\ \A i \in 1..Len(a) : Count(a[i], a) = Count(a[i], b)

\* C16: sort_links_by_type changes only the order of each record's pub_ids:
\* they are a permutation of what they were, the records are as many and in
\* the same order, and persons, titles and author string are as they were.
C16_SortLinksFrame ==
  Sorted =>
    /\ pc = "returned"
    /\ Len(publist) = Len(publist0)
    /\ \A i \in 1..Len(publist0) :
         /\ publist[i].persons = publist0[i].persons
         /\ publist[i].titles = publist0[i].titles
         /\ publist[i]._extras_authors = publist0[i]._extras_authors
         /\ IF publist0[i].pub_ids.t = "l"
            THEN /\ publist[i].pub_ids.t = "l"
                 /\ IsPermutation(publist[i].pub_ids.items, publist0[i].pub_ids.items)
            ELSE publist[i].pub_ids = publist0[i].pub_ids

\* two records, the links of both re-ordered, one with an author string
C16_Witness ==
  /\ Sorted
  /\ Len(publist0) = 2
  /\ publist0[1]._extras_authors # None
  /\ publist0[2]._extras_authors = None
  /\ \A i \in 1..2 : publist[i].pub_ids # publist0[i].pub_ids

\* C17: sort_links_by_type applied again with the same preference list leaves
\* the order of the pub_ids as the first application made it.
C17_SortLinksIdempotent == [][SortLinksAgain => publist' = publist]_vars

C17_Witness ==
  /\ pc = "returned again"
  /\ Len(publist0) = 1
  /\ publist # publist0
  /\ publist0[1].pub_ids = List(<<PubId(Isbn), PubId(None), PubId(Doi)>>)

\* the upper-cased first character of each whitespace-separated token of s
\* from position i on, each followed by sep
RECURSIVE Initials(_, _, _)
Initials(s, sep, i) ==
  IF i > Len(s) THEN <<>>
  ELSE (IF s[i] \notin Whitespace /\ (i = 1 \/ s[i - 1] \in Whitespace)
        THEN <<char_upper(s[i])>> \o sep
        ELSE <<>>) \o Initials(s, sep, i + 1)

\* C18: _abbreviate returns the upper-cased first character of each
\* whitespace-separated token of the name, each followed by sep, and the empty
\* string for an empty or null name.
C18_Abbreviate ==
  (Called /\ call.op = "_abbreviate") =>
     /\ pc = "returned"
     /\ out = Str(Initials(Text(call.name), call.sep.v, 1))

\* forename (abbreviated when abbrev is not null), space, surname, or the
\* reverse order, trimmed
Composed(p, abbrev, reverse) ==
  LET first == IF abbrev # None THEN Initials(Text(p.forename), abbrev.v, 1)
               ELSE Text(p.forename)
      last == Text(p.surname)
  IN Trimmed(IF reverse THEN last \o <<" ">> \o first ELSE first \o <<" ">> \o last)

\* C19: get_author_name abbreviates the forename when abbrev is not null (the
\* empty string included) and returns forename and surname joined by one
\* space, reversed when reverse is true, a missing part being empty and the
\* result trimmed; the person is not modified.
C19_GetAuthorName ==
  (Called /\ call.op = "get_author_name") =>
     LET p == publist0[call.i].persons.items[call.j]
     IN /\ pc = "returned"
        /\ out = Str(Composed(p, call.abbrev, call.reverse))
        /\ (Text(p.forename) = <<>> /\ Text(p.surname) # <<>>) => out = p.surname
        /\ (Text(p.surname) = <<>> /\ Text(p.forename) # <<>> /\ call.abbrev = None) =>
             out = p.forename
        /\ publist = publist0

\* the parts with sep between them
RECURSIVE Joined(_, _)
Joined(parts, sep) ==
  IF parts = <<>> THEN <<>>
  ELSE IF Len(parts) = 1 THEN parts[1]
  ELSE parts[1] \o sep \o Joined(Tail(parts), sep)

PersonsOf(d) == IF d.persons.t = "l" THEN d.persons.items ELSE <<>>

\* C20: add_author_list_string gives every record an author string: the
\* composed names of its persons in their order, joined by the separator, or
\* by ", " when none is given; persons and the other fields stay as they were.
C20_AuthorListString ==
  (Called /\ call.op = "add_author_list_string") =>
     /\ pc = "returned"
     /\ Len(publist) = Len(publist0)
     /\ \A i \in 1..Len(publist0) :
          LET ps == PersonsOf(publist0[i])
              sep == IF call.sep = None THEN <<",", " ">> ELSE call.sep.v
          IN /\ publist[i]._extras_authors =
                  Str(Joined([j \in 1..Len(ps) |->
                                Composed(ps[j], call.abbrev, call.reverse)], sep))
             /\ publist[i].persons = publist0[i].persons
             /\ publist[i].titles = publist0[i].titles
             /\ publist[i].pub_ids = publist0[i].pub_ids

\* ---------------------------------------------------------------------------
\* Properties of get_publications
\* ---------------------------------------------------------------------------
Exclusions == {"exclude_publications_by_author", "exclude_publications_by_title"}
Formatting ==
  {"add_author_list_string", "shorten_author_firstnames", "sort_links_by_type"}

Ran(stage) == \E i \in 1..Len(stages) : stages[i] = stage
Before(a, b) ==
  \A i, j \in 1..Len(stages) : (stages[i] = a /\ stages[j] = b) => i < j

\* C8 as stated: pruning, construction, link sorting and name formatting,
\* then exclusion, then export; exclusion never runs before sorting and name
\* formatting.
C8_ExclusionAfterFormatting ==
  /\ Before("json_strip_languages", "Publications")
  /\ \A f \in Formatting : Before("Publications", f)
  /\ \A f \in Formatting, e \in Exclusions : Before(f, e)
  /\ \A i \in 1..Len(stages) :
       stages[i] \in Exclusions =>
         /\ \E j \in 1..(i - 1) : stages[j] = "add_author_list_string"
         /\ \E j \in 1..(i - 1) : stages[j] = "sort_links_by_type"
  /\ \A e \in Exclusions : Before(e, "export")

\* C8 as amended: pruning, construction, exclusion by author, exclusion by
\* title, author string, forename shortening, link sorting, export, in that
\* order; exclusion never runs after name formatting or link sorting, and a
\* run that ends normally has constructed, formatted, sorted and exported.
C8_StageOrder ==
  /\ Before("json_strip_languages", "Publications")
  /\ \A e \in Exclusions :
       /\ Before("Publications", e)
       /\ \A f \in Formatting : Before(e, f)
  /\ Before("exclude_publications_by_author", "exclude_publications_by_title")
  /\ Before("Publications", "add_author_list_string")
  /\ Before("add_author_list_string", "shorten_author_firstnames")
  /\ Before("add_author_list_string", "sort_links_by_type")
  /\ Before("shorten_author_firstnames", "sort_links_by_type")
  /\ \A st \in Exclusions \cup Formatting \cup {"json_strip_languages", "Publications"} :
       Before(st, "export")
  /\ \A st \in Exclusions \cup Formatting : Ran(st) => Ran("Publications")
  /\ Ran("sort_links_by_type") => Ran("add_author_list_string")
  /\ pc = "done" =>
       /\ Ran("Publications")
       /\ Ran("add_author_list_string")
       /\ Ran("sort_links_by_type")
       /\ stages[Len(stages)] = "export"

C8_Witness ==
  /\ pc = "done"
  /\ stages = get_publications_body
  /\ Len(publist) < Len(Get(data0, "docs").items)

\* the publications as retrieved
Retrieved == Get(data0, "docs").items

\* some title of a retrieved publication, in any language, contains a pattern
RetrievedTitleMatches(d, names) ==
  /\ HasKey(d, "titles")
  /\ \E j \in 1..Len(Get(d, "titles").items), k \in 1..Len(PatternList(names)) :
       LET title == Get(d, "titles").items[j]
       IN /\ HasKey(title, "value")
          /\ Get(title, "value").t = "s"
          /\ OccursIn(PatternList(names)[k].v, Get(title, "value").v)

\* the record a retrieved publication is at the end of get_publications
Handed(d) ==
  LET tree == IF args.langs = <<All>> THEN d
              ELSE json_strip_languages(d, Lang, args.langs).ret
      named == add_author_list_string(<<ToDoc(tree)>>, args.authors_abbrev,
                                      args.authors_reverse, args.authors_sep).docs
      short == IF Truthy(args.authors_abbrev)
               THEN shorten_author_firstnames(named, args.authors_abbrev).docs
               ELSE named
  IN sort_links_by_type(short, <<Doi>>).docs[1]

\* C12: with --exclude-title, a publication with the text in any of its titles
\* as retrieved, in whatever language, is not among the records given to the
\* exporter.
C12_ExcludedTitlesAbsent ==
  (pc = "done" /\ Truthy(args.exclude_titles)) =>
     \A i \in 1..Len(Retrieved) :
       RetrievedTitleMatches(Retrieved[i], args.exclude_titles) =>
         \A j \in 1..Len(publist) : publist[j] # Handed(Retrieved[i])

\* the tree json_strip_languages returns for the language list of the run
Pruned(tree) == json_strip_languages(tree, Lang, args.langs).ret

Validation == {"Publications", "Institutions"}
AtValidation == pc \in {"Publications", get_institutions_body[2]}
Validated == \E v \in Validation : Ran(v)

\* C13: with the language list ["ALL"] the pruner is never invoked and the
\* retrieved tree reaches validation and the JSON export unchanged; with any
\* other list the pruner is applied to the whole retrieved tree before
\* validation.
C13_WildcardDisablesPruning ==
  /\ args.langs = <<All>> =>
       /\ ~Ran("json_strip_languages")
       /\ data = data0
       /\ (exported # Idle /\ exported.format = "json") => exported.tree = data0
  /\ args.langs # <<All>> =>
       /\ (AtValidation \/ Validated) =>
            /\ stages[1] = "json_strip_languages"
            /\ data = Pruned(data0)
       /\ \A v \in Validation : Before("json_strip_languages", v)
       /\ pc = "raised" => Ran("json_strip_languages")
       /\ ~Ran("json_strip_languages") =>
            pc \in {get_publications_body[1], get_institutions_body[1]}

\* institutions with names in two languages, exported as retrieved
C13_Witness ==
  /\ pc = get_institutions_body[4]
  /\ args.langs = <<All>>
  /\ stages = <<"Institutions", "export">>
  /\ data0 = Map(<< <<"docs", List(<<Map(<< <<"names",
                 List(<<LangMap(Deu, TextA), LangMap(Eng, TextB)>>)>> >>)>>)>> >>)
  /\ publist = <<Institution(List(<<LocalizedText(Deu, TextA),
                                    LocalizedText(Eng, TextB)>>))>>
  /\ exported = [format |-> "json", tree |-> data0]

\* the tree the run exports as JSON: the payload pruned, or as retrieved
Expected == IF args.langs = <<All>> THEN data0 ELSE Pruned(data0)

RecordStages ==
  {"exclude_publications_by_author", "exclude_publications_by_title",
   "add_author_list_string", "shorten_author_firstnames", "sort_links_by_type"}

\* C14: with JSON output the exported document is the language-pruned payload
\* (the payload as retrieved for ["ALL"]); exclusion, author formatting and link
\* sorting work on the typed records and leave the tree as it is.
C14_JsonExportIsPrunedTree ==
  /\ (exported # Idle /\ exported.format = "json") => exported.tree = Expected
  /\ (\E st \in RecordStages : Ran(st)) => data = Expected

\* a record excluded, forenames shortened, links re-sorted: the tree keeps all
C14_Witness ==
  /\ pc = "done"
  /\ exported = [format |-> "json", tree |-> Pruned(data0)]
  /\ exported.tree # data0
  /\ stages = get_publications_body
  /\ Len(publist) = 1
  /\ Len(Get(exported.tree, "docs").items) = 2
  /\ publist[1].pub_ids = List(<<PubId(Doi), PubId(Isbn)>>)
  /\ Field(Get(exported.tree, "docs").items[1], "pub_ids") =
       List(<<TypeDict(Isbn), TypeDict(Doi)>>)

\* the record of a retrieved publication with its forenames abbreviated, in the
\* persons and in the author string
Abbreviated(d) ==
  LET rec == ToDoc(IF args.langs = <<All>> THEN d ELSE Pruned(d))
      ps == PersonsOf(rec)
      sep == IF args.authors_sep = None THEN <<",", " ">> ELSE args.authors_sep.v
      short(p) == IF Truthy(p.forename)
                  THEN [p EXCEPT !.forename =
                          Str(Initials(p.forename.v, args.authors_abbrev.v, 1))]
                  ELSE p
  IN [rec EXCEPT
        !.persons = IF rec.persons.t = "l"
                    THEN List([j \in 1..Len(ps) |-> short(ps[j])])
                    ELSE rec.persons,
        !._extras_authors =
          Str(Joined([j \in 1..Len(ps) |->
                        Composed(ps[j], args.authors_abbrev, args.authors_reverse)],
                     sep)),
        !.pub_ids = sort_links_of(rec, <<Doi>>).pub_ids]

\* C21: whenever --authors-abbrev is given, with or without a character, the
\* records at the end of get_publications hold the abbreviated forenames both
\* in the author string and in every person with a non-empty forename.
C21_AbbreviatedEverywhere ==
  (pc = "done" /\ args.authors_abbrev # None) =>
     \A j \in 1..Len(publist) :
       \E i \in 1..Len(Retrieved) : publist[j] = Abbreviated(Retrieved[i])

\* ---------------------------------------------------------------------------
\* get_output_format and export (freidok_cli/cli/run.py)
\* ---------------------------------------------------------------------------
\* class ExportFormat(str, Enum)
MARKDOWN == Str(<<"m", "a", "r", "k", "d", "o", "w", "n">>)
HTML == Str(<<"h", "t", "m", "l">>)
JSON == Str(<<"j", "s", "o", "n">>)
TEMPLATE == Str(<<"t", "e", "m", "p", "l", "a", "t", "e">>)

\* a pathlib.Path, of which only the suffix matters
Path(suffix) == [t |-> "path", suffix |-> suffix]

\* --format taken ahead of --template
get_output_format_format_first(a) ==
  IF a.format # None THEN a.format
  ELSE IF a.template # None THEN TEMPLATE
  ELSE MARKDOWN

get_output_format(a) ==
  IF a.template # None THEN TEMPLATE
  ELSE IF Truthy(a.format) THEN a.format
  ELSE IF a.out # None
       THEN LET suffix == str_lower(a.out.suffix)
            IN IF suffix \in {<<".", "h", "t", "m">>, <<".", "h", "t", "m", "l">>}
               THEN HTML
               ELSE IF suffix = <<".", "j", "s", "o", "n">> THEN JSON
               ELSE MARKDOWN
  ELSE MARKDOWN

\* what export does: the exporter called and its arguments, or the exception
export(items, tree, a) ==
  LET outfile == IF a.out # None THEN a.out ELSE Str(<<"-">>)
      outfmt == get_output_format(a)
      with(exporter) ==
        [t |-> "written", exporter |-> exporter, items |-> items,
         outfile |-> outfile, template_file |-> a.template]
  IN CASE outfmt = HTML /\ items.type = "publication" ->
            with("PublicationsHtmlExporter")
       [] outfmt = HTML /\ items.type = "institution" ->
            with("InstitutionsHtmlExporter")
       [] outfmt = MARKDOWN /\ items.type = "publication" ->
            with("PublicationsMarkdownExporter")
       [] outfmt = MARKDOWN /\ items.type = "institution" ->
            with("InstitutionsMarkdownExporter")
       [] outfmt = TEMPLATE -> with("TemplateExporter")
       [] outfmt = JSON ->
            [t |-> "written", exporter |-> "json.dump", outfile |-> outfile,
             tree |-> export_json(items, tree)]
       [] OTHER -> Err(<<"NotImplementedError">>)

Suffixes ==
  { <<>>, <<".", "h", "t", "m">>, <<".", "h", "t", "m", "l">>,
    <<".", "H", "T", "M", "L">>, <<".", "j", "s", "o", "n">>, <<".", "m", "d">>,
    <<".", "h", "t", "m", "l", "l">> }

ExportArguments ==
  [template : {None, Path(<<".", "j", "2">>)},
   format : {None, MARKDOWN, HTML, JSON},
   out : {None} \cup {Path(x) : x \in Suffixes}]

ExportItems == {[type |-> ty, docs |-> <<>>] : ty \in {"publication", "institution"}}

IdlePrune ==
  /\ node = None
  /\ tree0 = None
  /\ preferred = <<>>
  /\ ret = None
  /\ ret2 = None
  /\ value = None
  /\ idx = 0

InitExport ==
  /\ pc = "start"
  /\ args \in ExportArguments
  /\ publist \in ExportItems
  /\ publist0 = publist
  /\ data = Map(<< <<"docs", List(<<>>)>> >>)
  /\ data0 = data
  /\ call = [op |-> "none"]
  /\ out = None
  /\ stages = <<>>
  /\ exported = Idle
  /\ IdlePrune

\* outfmt = get_output_format(args)
GetOutputFormat ==
  /\ pc = "start"
  /\ call' = [op |-> "get_output_format"]
  /\ out' = get_output_format(args)
  /\ pc' = "returned"
  /\ UNCHANGED <<publist, publist0, pruneVars, pipelineVars>>

\* export(items, data, args)
Export ==
  /\ pc = "start"
  /\ call' = [op |-> "export"]
  /\ LET r == export(publist, data, args)
     IN /\ exported' = IF IsErr(r) THEN exported ELSE r
        /\ out' = IF IsErr(r) THEN r ELSE out
        /\ pc' = IF IsErr(r) THEN "raised" ELSE "returned"
  /\ UNCHANGED <<publist, publist0, node, tree0, preferred, ret, ret2, value, idx,
                 args, data, data0, stages>>

NextExport == GetOutputFormat \/ Export

SpecExport == InitExport /\ [][NextExport]_vars

\* the format the options ask for
LowerSuffix == IF args.out = None THEN <<>> ELSE str_lower(args.out.suffix)

Asked(fmt) ==
  \/ fmt = TEMPLATE /\ args.template # None
  \/ /\ args.template = None
     /\ \/ args.format = fmt
        \/ /\ args.format = None
           /\ \/ /\ fmt = HTML
                 /\ args.out # None
                 /\ LowerSuffix \in {<<".", "h", "t", "m">>, <<".", "h", "t", "m", "l">>}
              \/ /\ fmt = JSON
                 /\ args.out # None
                 /\ LowerSuffix = <<".", "j", "s", "o", "n">>
              \/ /\ fmt = MARKDOWN
                 /\ \/ args.out = None
                    \/ LowerSuffix \notin {<<".", "h", "t", "m">>,
                                           <<".", "h", "t", "m", "l">>,
                                           <<".", "j", "s", "o", "n">>}

ExporterOf(fmt, type) ==
  IF fmt = TEMPLATE THEN "TemplateExporter"
  ELSE IF fmt = JSON THEN "json.dump"
  ELSE IF fmt = HTML
       THEN (IF type = "publication" THEN "PublicationsHtmlExporter"
             ELSE "InstitutionsHtmlExporter")
  ELSE (IF type = "publication" THEN "PublicationsMarkdownExporter"
        ELSE "InstitutionsMarkdownExporter")

\* C22: get_output_format gives TEMPLATE whenever a template is given, else
\* the explicit --format, else the format of the --out suffix (.htm/.html
\* HTML, .json JSON, any other MARKDOWN), else MARKDOWN; export writes with
\* exactly the exporter of that format.
C22_OutputFormat ==
  /\ (pc = "returned" /\ call.op = "get_output_format") =>
       /\ out \in {TEMPLATE, MARKDOWN, HTML, JSON}
       /\ Asked(out)
  /\ call.op = "export" =>
       /\ pc = "returned"
       /\ \A fmt \in {TEMPLATE, MARKDOWN, HTML, JSON} :
            Asked(fmt) => exported.exporter = ExporterOf(fmt, publist.type)

\* a template given together with --format json and an .html output file
C22_Witness ==
  /\ pc = "returned"
  /\ call.op = "export"
  /\ args = [template |-> Path(<<".", "j", "2">>), format |-> JSON,
             out |-> Path(<<".", "h", "t", "m", "l">>)]
  /\ exported.exporter = "TemplateExporter"

\* ---------------------------------------------------------------------------
\* FreidokApiClient (freidok/client.py)
\* ---------------------------------------------------------------------------
Number(n) == [t |-> "i", v |-> n]

Digits == <<"0", "1", "2", "3", "4", "5", "6", "7", "8", "9">>

\* str(item) for an int of one digit
str(item) == IF item.t = "s" THEN item.v ELSE <<Digits[item.v + 1]>>

list2str(items) ==
  IF items = None THEN None
  ELSE Str(str_join(<<",">>, [i \in 1..Len(items.items) |-> str(items.items[i])]))

\* d[name] = value
setitem(d, name, val) ==
  IF HasKey(d, name)
  THEN Map([i \in 1..Len(d.kv) |->
              IF d.kv[i][1] = name THEN <<name, val>> ELSE d.kv[i]])
  ELSE Map(Append(d.kv, <<name, val>>))

\* d.setdefault(name, value)
setdefault(d, name, val) == IF HasKey(d, name) THEN d ELSE setitem(d, name, val)

\* d.update(other)
RECURSIVE update(_, _)
update(d, other) ==
  IF other.kv = <<>> THEN d
  ELSE update(setitem(d, other.kv[1][1], other.kv[1][2]), Map(Tail(other.kv)))

add_param(d, name, val) == IF val # None THEN setitem(d, name, val) ELSE d

\* a _get that goes on to requests.get in a dry run, too
_get_sending(self, url, params, status) ==
  [events |-> <<"requests.get">>, sent |-> <<[url |-> url, params |-> params]>>,
   ret |-> Map(<< <<"docs", List(<<>>)>> >>)]

\* events: what the call does, in order; sent: the requests that left;
\* ret: the value returned or the exception
_get(self, url, params, status) ==
  LET p == IF Truthy(params) /\ Truthy(self.default_max_items)
           THEN setdefault(params, "maxRows", self.default_max_items)
           ELSE params
  IN IF self.dryrun
     THEN [events |-> <<"Request.prepare", "print", "exit">>, sent |-> <<>>,
           ret |-> Err(<<"SystemExit">>)]
     ELSE [events |-> <<"requests.get">>,
           sent |-> <<[url |-> url, params |-> p]>>,
           ret |-> IF status = 200 THEN Map(<< <<"docs", List(<<>>)>> >>)
                   ELSE Err(<<"HTTPError">>)]

Raise(e) == [events |-> <<>>, sent |-> <<>>, ret |-> Err(<<e>>)]

\* the check of the selection parameters left out
some_selection_unchecked(params) == TRUE

\* if not params: raise ValueError('Missing parameters! ...')
some_selection(params) == Truthy(params)

\* the date parameters without the check of the range
date_params_unchecked(params, year_from, year_to) ==
  IF Truthy(year_from) /\ year_from.v > 0
  THEN [err |-> <<>>,
        params |-> add_param(add_param(params, "yearFrom", year_from),
                             "yearTo", year_to)]
  ELSE [err |-> <<>>, params |-> params]

\* add date params
date_params(params, year_from, year_to) ==
  IF Truthy(year_from) /\ year_from.v > 0
  THEN IF Truthy(year_to) /\ year_to.v > 0 /\ year_to.v < year_from.v
       THEN [err |-> <<"ValueError">>, params |-> params]
       ELSE LET to == IF Truthy(year_to) /\ year_to.v > 0 THEN year_to ELSE year_from
            IN [err |-> <<>>,
                params |-> add_param(add_param(params, "yearFrom", year_from),
                                     "yearTo", to)]
  ELSE [err |-> <<>>, params |-> params]

client_get_publications(self, q, status) ==
  LET url == self.endpoint \o <<"/publications">>
      p1 == add_param(Map(<<>>), "publicationId", list2str(q.ids))
      p2 == add_param(p1, "instId", list2str(q.inst_ids))
      p3 == add_param(p2, "persId", list2str(q.pers_ids))
      p4 == add_param(p3, "projId", list2str(q.proj_ids))
      p5 == add_param(p4, "titleSearch", q.title)
      p6 == add_param(p5, "field", list2str(q.fields))
      p7 == add_param(p6, "maxPers", q.maxpers)
      p8 == IF Truthy(q.maxitems) THEN add_param(p7, "maxRows", q.maxitems) ELSE p7
      p9 == IF Truthy(q.startitem) THEN add_param(p8, "start", q.startitem) ELSE p8
      dated == date_params(p9, q.year_from, q.year_to)
      p10 == IF Truthy(q.kwargs) THEN update(dated.params, q.kwargs) ELSE dated.params
  IN IF ~some_selection(p5) THEN Raise("ValueError")
     ELSE IF dated.err # <<>> THEN Raise("ValueError")
     ELSE _get(self, url, p10, status)

client_get_institutions(self, q, status) ==
  LET url == self.endpoint \o <<"/institutions">>
      p1 == add_param(Map(<<>>), "instId", list2str(q.ids))
      p2 == add_param(p1, "nameSearch", q.name)
      p3 == IF Truthy(q.kwargs) THEN update(p2, q.kwargs) ELSE p2
  IN IF ~some_selection(p2) THEN Raise("ValueError")
     ELSE _get(self, url, p3, status)

Clients ==
  [endpoint : {<<"http://api">>},
   default_max_items : {Number(0), Number(3)},
   dryrun : BOOLEAN]

Years == {None} \cup {Number(y) : y \in -1..MaxYear}

IdLists == {None, List(<<Number(1)>>)}

Extra ==
  { Map(<<>>),
    Map(<< <<"pubtype", Str(<<"b">>)>> >>),
    Map(<< <<"yearTo", Number(1)>> >>) }

PublicationQueries ==
  [op : {"get_publications"},
   ids : {None, List(<<>>), List(<<Number(1), Number(2)>>)},
   inst_ids : IdLists,
   pers_ids : {None},
   proj_ids : IdLists,
   title : {None, Str(<<"x">>)},
   year_from : Years,
   year_to : Years,
   fields : {None, List(<<Str(<<"i", "d">>)>>)},
   maxpers : {None},
   maxitems : {Number(0), Number(5)},
   startitem : {Number(0)},
   kwargs : Extra]

InstitutionQueries ==
  [op : {"get_institutions"},
   ids : {None, List(<<>>), List(<<Str(<<"1">>)>>)},
   name : {None, Str(<<>>), Str(<<"x">>)},
   kwargs : {Map(<<>>), Map(<< <<"pubtype", Str(<<"b">>)>> >>)}]

\* node: the client; args: the arguments of the call; stages: what the call
\* did; exported: the requests sent; out: the value returned or the exception
InitClient ==
  /\ pc = "start"
  /\ node \in Clients
  /\ args \in PublicationQueries \cup InstitutionQueries
  /\ stages = <<>>
  /\ exported = <<>>
  /\ out = None
  /\ call = [op |-> "none"]
  /\ data = None
  /\ data0 = None
  /\ publist = <<>>
  /\ publist0 = <<>>
  /\ tree0 = None
  /\ preferred = <<>>
  /\ ret = None
  /\ ret2 = None
  /\ value = None
  /\ idx = 0

Respond(r) ==
  /\ stages' = r.events
  /\ exported' = r.sent
  /\ out' = r.ret
  /\ pc' = IF r.ret = Err(<<"SystemExit">>) THEN "exited"
           ELSE IF IsErr(r.ret) THEN "raised"
           ELSE "returned"
  /\ UNCHANGED <<node, args, data, data0, publist, publist0, tree0, preferred,
                 ret, ret2, value, idx>>

\* client.get_publications(...), the server answering with some status
ClientGetPublications ==
  /\ pc = "start"
  /\ args.op = "get_publications"
  /\ call' = [op |-> "get_publications"]
  /\ \E status \in {200, 404} : Respond(client_get_publications(node, args, status))

\* client.get_institutions(...)
ClientGetInstitutions ==
  /\ pc = "start"
  /\ args.op = "get_institutions"
  /\ call' = [op |-> "get_institutions"]
  /\ \E status \in {200, 404} : Respond(client_get_institutions(node, args, status))

NextClient == ClientGetPublications \/ ClientGetInstitutions

SpecClient == InitClient /\ [][NextClient]_vars

Happened(e) == \E i \in 1..Len(stages) : stages[i] = e

\* C23: with dryrun set no HTTP request is sent: a call that reaches _get
\* prints the prepared request and ends the process before requests.get.
C23_DryRunSendsNothing ==
  (node.dryrun /\ pc # "start") =>
     /\ exported = <<>>
     /\ ~Happened("requests.get")
     /\ pc \in {"exited", "raised"}
     /\ pc = "exited" => stages = <<"Request.prepare", "print", "exit">>
     /\ pc = "raised" => (stages = <<>> /\ out = Err(<<"ValueError">>))

C23_Witness ==
  /\ pc = "exited"
  /\ node.dryrun
  /\ args.op = "get_publications"
  /\ args.ids = List(<<Number(1), Number(2)>>)
  /\ stages = <<"Request.prepare", "print", "exit">>
  /\ exported = <<>>

Selectors ==
  IF args.op = "get_publications"
  THEN {args.ids, args.inst_ids, args.pers_ids, args.proj_ids, args.title}
  ELSE {args.ids, args.name}

SelectionParameters ==
  IF args.op = "get_publications"
  THEN {"publicationId", "instId", "persId", "projId", "titleSearch"}
  ELSE {"instId", "nameSearch"}

\* C24: get_publications raises ValueError and sends nothing when none of ids,
\* inst_ids, pers_ids, proj_ids and title is given, get_institutions when
\* neither ids nor name is; a request that is sent carries at least one of
\* the selection parameters.
C24_SelectionRequired ==
  pc # "start" =>
    /\ Selectors = {None} =>
         /\ pc = "raised"
         /\ out = Err(<<"ValueError">>)
         /\ exported = <<>>
         /\ stages = <<>>
    /\ \A i \in 1..Len(exported) :
         \E k \in SelectionParameters : HasKey(exported[i].params, k)

\* nothing but extra parameters given, and no dry run
C24_Witness ==
  /\ pc = "raised"
  /\ ~node.dryrun
  /\ args.op = "get_publications"
  /\ Selectors = {None}
  /\ args.kwargs = Map(<< <<"pubtype", Str(<<"b">>)>> >>)
  /\ args.year_from = Number(1)
  /\ out = Err(<<"ValueError">>)
  /\ exported = <<>>

Positive(x) == x # None /\ x.v > 0

\* C25: in get_publications, with no extra parameter overriding the years, a
\* positive year_from with a smaller positive year_to raises ValueError and
\* sends nothing; a positive year_from with year_to missing or 0 sets yearTo
\* to yearFrom; a request sent carries yearFrom <= yearTo, or neither.
C25_YearRange ==
  (/\ pc # "start"
   /\ args.op = "get_publications"
   /\ ~HasKey(args.kwargs, "yearFrom")
   /\ ~HasKey(args.kwargs, "yearTo")) =>
     /\ (/\ Positive(args.year_from)
         /\ Positive(args.year_to)
         /\ args.year_to.v < args.year_from.v) =>
           /\ pc = "raised"
           /\ out = Err(<<"ValueError">>)
           /\ exported = <<>>
     /\ \A i \in 1..Len(exported) :
          LET params == exported[i].params
          IN /\ \/ ~HasKey(params, "yearFrom") /\ ~HasKey(params, "yearTo")
                \/ /\ HasKey(params, "yearFrom")
                   /\ HasKey(params, "yearTo")
                   /\ Get(params, "yearFrom").v <= Get(params, "yearTo").v
             /\ (Positive(args.year_from) /\ args.year_to \in {None, Number(0)}) =>
                  /\ HasKey(params, "yearFrom")
                  /\ HasKey(params, "yearTo")
                  /\ Get(params, "yearFrom") = args.year_from
                  /\ Get(params, "yearTo") = args.year_from

\* a request for the single year 2
C25_Witness ==
  /\ pc = "returned"
  /\ args.op = "get_publications"
  /\ args.year_from = Number(2)
  /\ args.year_to = None
  /\ args.kwargs = Map(<<>>)
  /\ Len(exported) = 1
  /\ Get(exported[1].params, "yearFrom") = Number(2)
  /\ Get(exported[1].params, "yearTo") = Number(2)

\* ---------------------------------------------------------------------------
\* pruning and elements of the surviving language that are not adjacent
\* ---------------------------------------------------------------------------
Occurs(x, items) == \E j \in 1..Len(items) : items[j] = x

Fires(items) == Len(items) > 1 /\ AllCarry(items, Lang)

\* C26: where pruning fires, the result contains every element of the original
\* list whose attribute value equals that of the first surviving element, also
\* when no language of the list is preferred and the elements of that
\* language are not adjacent in the input.
C26_KeepsAllOfSurvivingLanguage ==
  (/\ pc \in {"stripped", "done"}
   /\ IsTitles(tree0)
   /\ Fires(Get(tree0, "titles").items)) =>
     LET items == Get(tree0, "titles").items
         kept == Get(ret, "titles").items
     IN /\ kept # <<>>
        /\ \A i \in 1..Len(items) :
             Get(items[i], Lang) = Get(kept[1], Lang) => Occurs(items[i], kept)

\* the same property for lists whose best language is in the preference list
C26_KeepsAllOfPreferredLanguage ==
  (/\ pc \in {"stripped", "done"}
   /\ IsTitles(tree0)
   /\ Fires(Get(tree0, "titles").items)
   /\ \E i \in 1..Len(Get(tree0, "titles").items) :
        preference_index(Get(Get(tree0, "titles").items[i], Lang), preferred)
          < Len(preferred)) =>
     LET items == Get(tree0, "titles").items
         kept == Get(ret, "titles").items
     IN \A i \in 1..Len(items) :
          Get(items[i], Lang) = Get(kept[1], Lang) => Occurs(items[i], kept)

\* ---------------------------------------------------------------------------
\* the order of shortening the forenames and building the author list
\* ---------------------------------------------------------------------------
\* the derived author strings with the abbreviation applied once to the
\* forenames as retrieved
AbbreviatedOnce(docs, c) ==
  LET r == add_author_list_string(docs, c.abbrev, c.reverse, c.sep).docs
  IN [i \in 1..Len(r) |-> r[i]._extras_authors]

AuthorStrings(docs) == [i \in 1..Len(docs) |-> docs[i]._extras_authors]

\* C27: the abbreviation is applied exactly once to the derived author string,
\* each name carrying the initials of all tokens of the forename as retrieved,
\* whether the forenames are shortened before the author list is built or
\* after it: both orders give the same derived string.
C27_AbbreviatedOnceInEitherOrder ==
  [][((CliFormatAuthors \/ RunFormatAuthors) /\ pc' = "returned") =>
       AuthorStrings(publist') = AbbreviatedOnce(publist, call')]_vars

\* the same for the order of freidok_cli/cli/run.py alone
C27_AbbreviatedOnceComposeFirst ==
  [][(RunFormatAuthors /\ pc' = "returned") =>
       AuthorStrings(publist') = AbbreviatedOnce(publist, call')]_vars

\* "Jo al" with the separator ".": shortened to "J.A.", then abbreviated again
C27_TwiceAbbreviated ==
  /\ pc = "returned"
  /\ call.op = "cli: format authors"
  /\ call.abbrev = Str(<<".">>)
  /\ Len(publist0) = 1
  /\ publist0[1].persons = List(<<Person(NameJoAl, None)>>)
  /\ publist[1]._extras_authors = Str(<<"J", ".">>)

\* ---------------------------------------------------------------------------
\* PlonePusher (freidok_cli/tools/push_to_plone.py)
\* ---------------------------------------------------------------------------
RECURSIVE rstrip_slash(_)
rstrip_slash(u) ==
  IF u # <<>> /\ u[Len(u)] = "/" THEN rstrip_slash(SubSeq(u, 1, Len(u) - 1)) ELSE u

RECURSIVE lstrip_slash(_)
lstrip_slash(u) == IF u # <<>> /\ Head(u) = "/" THEN lstrip_slash(Tail(u)) ELSE u

\* PlonePusher(username, password, base_url)
PlonePusher(username, password, base_url) ==
  [username |-> username, password |-> password,
   base_url |-> rstrip_slash(base_url),
   login_path |-> <<"login_form">>, logout_path |-> <<"logout">>]

\* the exceptions push catches around login and _send
Caught == {"HTTPError", "ConnectionError", "ValueError"}

\* what the server, or the network, does with a request: raises is the
\* exception the session raises instead of giving a response
Response(raises, status, cookies, url) ==
  [raises |-> raises, status |-> status, cookies |-> cookies, url |-> url]

\* r.raise_for_status()
raise_for_status(r) == IF r.status >= 400 THEN <<"HTTPError">> ELSE <<>>

\* s.post / s.get: the request leaves, the cookies of a response are kept
send_request(s, method, url, body, r) ==
  [s |-> [cookies |-> IF r.raises = <<>> THEN update(s.cookies, r.cookies)
                      ELSE s.cookies,
          requests |-> Append(s.requests, [method |-> method, url |-> url,
                                           body |-> body])],
   err |-> r.raises]

\* a login that does not look for the cookie
login_without_cookie_check(self, s, r) ==
  LET url == self.base_url \o <<"/">> \o self.login_path
      posted == send_request(s, "POST", url, <<self.username, self.password>>, r)
  IN IF posted.err # <<>> THEN posted
     ELSE [s |-> posted.s, err |-> raise_for_status(r)]

\* s: the session after the call; err: the exception raised, <<>> for none
login(self, s, r) ==
  LET url == self.base_url \o <<"/">> \o self.login_path
      posted == send_request(s, "POST", url, <<self.username, self.password>>, r)
  IN IF posted.err # <<>> THEN posted
     ELSE IF raise_for_status(r) # <<>> THEN [s |-> posted.s, err |-> <<"HTTPError">>]
     ELSE IF ~Truthy(Field(posted.s.cookies, "__ac"))
          THEN [s |-> posted.s, err |-> <<"ValueError">>]
     ELSE [s |-> posted.s, err |-> <<>>]

logout(self, s, r) ==
  LET url == self.base_url \o <<"/">> \o self.logout_path
      got == send_request(s, "GET", url, <<>>, r)
  IN IF got.err # <<>> THEN got
     ELSE [s |-> got.s, err |-> raise_for_status(r)]

_send(self, s, remote_path, text, r) ==
  LET path == rstrip_slash(lstrip_slash(remote_path))
      url == self.base_url \o <<"/">> \o path \o <<"/", "atct_edit">>
      posted == send_request(s, "POST", url, text, r)
  IN IF posted.err # <<>> THEN posted
     ELSE IF raise_for_status(r) # <<>> THEN [s |-> posted.s, err |-> <<"HTTPError">>]
     ELSE IF r.url = "require_login" THEN [s |-> posted.s, err |-> <<"ValueError">>]
     ELSE [s |-> posted.s, err |-> <<>>]

NoCookies == Map(<<>>)
AcCookie(v) == Map(<< <<"__ac", Str(v)>> >>)

LoginResponses ==
  { Response(<<>>, 200, AcCookie(<<"t">>), "came_from"),
    Response(<<>>, 200, NoCookies, "login_form"),
    Response(<<>>, 200, AcCookie(<<>>), "login_form"),
    Response(<<>>, 200, Map(<< <<"lang", Str(<<"e", "n">>)>> >>), "login_form"),
    Response(<<>>, 403, NoCookies, "login_form"),
    Response(<<>>, 500, AcCookie(<<"t">>), "login_form"),
    Response(<<"ConnectionError">>, 0, NoCookies, ""),
    Response(<<"TooManyRedirects">>, 0, NoCookies, "") }

SendResponses ==
  { Response(<<>>, 200, NoCookies, "view"),
    Response(<<>>, 200, NoCookies, "require_login"),
    Response(<<>>, 404, NoCookies, "atct_edit"),
    Response(<<"ConnectionError">>, 0, NoCookies, "") }

LogoutResponses ==
  { Response(<<>>, 200, NoCookies, "logged_out"),
    Response(<<>>, 500, NoCookies, "logout"),
    Response(<<"ConnectionError">>, 0, NoCookies, "") }

Pushers ==
  {PlonePusher("user", "pass", u) :
     u \in {<<"http://plone">>, <<"http://plone", "/">>, <<"http://plone", "/", "site">>}}

RemotePaths == {<<"news">>, <<"/", "news", "/">>, <<"news", "/", "2024">>}

Articles == {<<"<p>">>, <<"<ul>">>}

\* requests.Session()
Session == [cookies |-> NoCookies, requests |-> <<>>]

\* args: the pusher and the arguments of push; node: the session; exported:
\* the requests that left; stages: what push did; out: the exception pending
\* or raised; data, data0, value: the responses to login, _send and logout
InitPlone ==
  /\ pc = "push: login"
  /\ args \in [self : Pushers, remote_path : RemotePaths, data : Articles]
  /\ node = Session
  /\ exported = <<>>
  /\ stages = <<>>
  /\ out = None
  /\ call = [op |-> "push"]
  /\ data = None
  /\ data0 = None
  /\ value = None
  /\ publist = <<>>
  /\ publist0 = <<>>
  /\ tree0 = None
  /\ preferred = <<>>
  /\ ret = None
  /\ ret2 = None
  /\ idx = 0

plonePassive == <<args, call, publist, publist0, tree0, preferred, ret, ret2, idx>>

\* try: self.login(s); print("Login successful")
\* except (HTTPError, ConnectionError, ValueError): raise ValueError("Login failed")
PushLogin ==
  /\ pc = "push: login"
  /\ \E r \in LoginResponses :
       LET l == login(args.self, node, r)
       IN /\ data' = r
          /\ node' = l.s
          /\ exported' = l.s.requests
          /\ stages' = stages \o <<"login">> \o
                         (IF l.err = <<>> THEN <<"print Login successful">> ELSE <<>>)
          /\ out' = IF l.err = <<>> THEN None
                    ELSE IF l.err[1] \in Caught
                         THEN Err(<<"ValueError", "Login failed">>)
                    ELSE Err(l.err)
          /\ pc' = IF l.err = <<>> THEN "push: _send" ELSE "raised"
  /\ UNCHANGED <<data0, value, plonePassive>>

\* try: self._send(s, remote_path, data); print("Push successful")
\* except (HTTPError, ConnectionError, ValueError): raise ValueError("Push failed")
PushSend ==
  /\ pc = "push: _send"
  /\ \E r \in SendResponses :
       LET l == _send(args.self, node, args.remote_path, args.data, r)
       IN /\ data0' = r
          /\ node' = l.s
          /\ exported' = l.s.requests
          /\ stages' = stages \o <<"_send">> \o
                         (IF l.err = <<>> THEN <<"print Push successful">> ELSE <<>>)
          /\ out' = IF l.err = <<>> THEN None
                    ELSE IF l.err[1] \in Caught
                         THEN Err(<<"ValueError", "Push failed">>)
                    ELSE Err(l.err)
          /\ pc' = "push: logout"
  /\ UNCHANGED <<data, value, plonePassive>>

\* finally: try: self.logout(s); print("Logout successful")
\* except (HTTPError, ConnectionError): print("Logout failed")
PushLogout ==
  /\ pc = "push: logout"
  /\ \E r \in LogoutResponses :
       LET l == logout(args.self, node, r)
       IN /\ value' = r
          /\ node' = l.s
          /\ exported' = l.s.requests
          /\ stages' = stages \o <<"logout">> \o
                         (IF l.err = <<>> THEN <<"print Logout successful">>
                          ELSE <<"print Logout failed">>)
          /\ pc' = IF out = None THEN "returned" ELSE "raised"
  /\ UNCHANGED <<out, data, data0, plonePassive>>

NextPlone == PushLogin \/ PushSend \/ PushLogout

SpecPlone == InitPlone /\ [][NextPlone]_vars

\* the login named in the claim fails: HTTP error, connection error, or no
\* __ac cookie in the session
LoginFails(r) ==
  \/ r.raises = <<"ConnectionError">>
  \/ r.raises = <<>> /\ r.status >= 400
  \/ r.raises = <<>> /\ ~HasKey(r.cookies, "__ac")

ArticlePosts ==
  {i \in 1..Len(exported) :
     exported[i].method = "POST" /\ exported[i].body = args.data}

\* C28: push posts the article only after the login of the same session
\* succeeded; when login fails (HTTP error, connection error, or no __ac
\* cookie) push raises ValueError("Login failed") and neither _send nor
\* logout is called.
C28_NoPushWithoutLogin ==
  /\ (pc # "push: login" /\ LoginFails(data)) =>
       /\ pc = "raised"
       /\ out = Err(<<"ValueError", "Login failed">>)
       /\ ~Happened("_send")
       /\ ~Happened("logout")
       /\ ArticlePosts = {}
       /\ Len(exported) = 1
  /\ (ArticlePosts # {} \/ Happened("_send") \/ Happened("logout")) =>
       /\ data # None
       /\ ~LoginFails(data)
       /\ Truthy(Field(node.cookies, "__ac"))
       /\ stages[1] = "login"
       /\ stages[2] = "print Login successful"
       /\ \A i \in ArticlePosts : i > 1

\* the server answers the login with 200 and no __ac cookie
C28_Witness ==
  /\ pc = "raised"
  /\ data = Response(<<>>, 200, Map(<< <<"lang", Str(<<"e", "n">>)>> >>), "login_form")
  /\ out = Err(<<"ValueError", "Login failed">>)
  /\ stages = <<"login">>
  /\ Len(exported) = 1

====
